---- MODULE Spec2Model ----
(***************************************************************************)
(* Detection-stream post-processing pipeline of defect_spotter             *)
(* (GeminiLiveClient in src/src/services/gemini.ts and ForensicLiveClient  *)
(* in src/src/services/forensicTypes.ts), together with the streaming      *)
(* session life cycle that feeds it.                                       *)
(*                                                                         *)
(* Numbers.  A normalized coordinate c in [0,1] is the integer 1000*c      *)
(* (permille), so areas are in units of 10^-6 and every comparison the     *)
(* code makes on IoU, distance, area and aspect ratio is made here on      *)
(* integers, cross-multiplied.  A raw box_2d number v is the integer       *)
(* 1000*v, so that raw values on the 0-1 scale are representable.  Time    *)
(* is in milliseconds.  A handler runs within one reading of Date.now().   *)
(***************************************************************************)
EXTENDS Integers, Sequences, FiniteSets, TLC

VARIABLES
    profile,              \* "property": GeminiLiveClient, "forensic": ForensicLiveClient
    now,                  \* Date.now()
    isReady,              \* client.isReady
    ws,                   \* client.ws: 0 is null, i is the socket of start call i
    frameInterval,        \* client.frameInterval: 0 is null, else a timer id
    abortController,      \* client.abortController: 0 is null, else a controller id
    recentDetections,     \* dedup list
    temporalBuffer,       \* temporal map, in insertion order
    confirmedDetections,  \* NMS list
    session,              \* ForensicLiveClient.session
    defects,              \* store.defects, newest first
    lastLogs,             \* what the most recent handler logged
    isScanning,           \* store.isScanning
    serviceStatus,        \* store.serviceStatus.geminiLive
    socks,                \* one record per startStreaming call: its WebSocket and promise
    timers,               \* the interval timers that are running
    requests              \* REST requests in flight: abort signal, and the frame sent

vars == <<profile, now, isReady, ws, frameInterval, abortController,
          recentDetections, temporalBuffer, confirmedDetections, session,
          defects, lastLogs, isScanning, serviceStatus, socks, timers, requests>>

(***************************************************************************)
(* Program constants                                                       *)
(***************************************************************************)
DEDUP_TIME_WINDOW_MS == 30000
DEDUP_SPATIAL_TOLERANCE == 150
MIN_CONFIDENCE_THRESHOLD == 60
TEMPORAL_THRESHOLD == 1
TEMPORAL_WINDOW_MS == 3000
IOU_THRESHOLD_NUM == 25
NMS_IOU_THRESHOLD_NUM == 50
NMS_WINDOW_MS == 5000
FORENSIC_DEDUP_TIME_WINDOW_MS == 45000
FORENSIC_DEDUP_SPATIAL_TOLERANCE == 120
FORENSIC_MIN_CONFIDENCE_THRESHOLD == 70
DEFAULT_CONFIDENCE == 70
ALERT_CONFIDENCE == 95

DedupWindow(pf) == IF pf = "forensic" THEN FORENSIC_DEDUP_TIME_WINDOW_MS
                   ELSE DEDUP_TIME_WINDOW_MS
DedupTolerance(pf) == IF pf = "forensic" THEN FORENSIC_DEDUP_SPATIAL_TOLERANCE
                      ELSE DEDUP_SPATIAL_TOLERANCE
MinConfidence(pf) == IF pf = "forensic" THEN FORENSIC_MIN_CONFIDENCE_THRESHOLD
                     ELSE MIN_CONFIDENCE_THRESHOLD

(***************************************************************************)
(* Values                                                                  *)
(***************************************************************************)
\* An undefined or null bounding box (a real box has no negative coordinate).
NoBox == [ymin |-> -1, xmin |-> -1, ymax |-> -1, xmax |-> -1]
HasBox(b) == b # NoBox
\* A null session has id 0; a session started by start call i has id i.
NoSession == [id |-> 0, evidence |-> <<>>, authenticityAlerts |-> <<>>, chainOfCustody |-> <<>>]
HasSession(sess) == sess.id # 0

Max2(a, b) == IF a >= b THEN a ELSE b
Min2(a, b) == IF a <= b THEN a ELSE b
Clamp(lo, hi, v) == Max2(lo, Min2(hi, v))

Box(ymin, xmin, ymax, xmax) == [ymin |-> ymin, xmin |-> xmin, ymax |-> ymax, xmax |-> xmax]

\* String.prototype.toLowerCase on the type labels the detector sends.
ToLowerCase(s) ==
    CASE s = "Crack" -> "crack"
      [] s = "CRACK" -> "crack"
      [] s = "Mold" -> "mold"
      [] OTHER -> s

(***************************************************************************)
(* Geometry                                                                *)
(***************************************************************************)
\* calculateIoU dividing by the area of the first box.
IoUPartsOfFirst(box1, box2) ==
    LET xA == Max2(box1.xmin, box2.xmin)
        yA == Max2(box1.ymin, box2.ymin)
        xB == Min2(box1.xmax, box2.xmax)
        yB == Min2(box1.ymax, box2.ymax)
        intersection == Max2(0, xB - xA) * Max2(0, yB - yA)
        box1Area == (box1.xmax - box1.xmin) * (box1.ymax - box1.ymin)
    IN  [intersection |-> intersection, union |-> box1Area]

\* calculateIoU: the intersection and union areas; the quotient is compared
\* cross-multiplied by IoUAtLeast.
IoUParts(box1, box2) ==
    LET xA == Max2(box1.xmin, box2.xmin)
        yA == Max2(box1.ymin, box2.ymin)
        xB == Min2(box1.xmax, box2.xmax)
        yB == Min2(box1.ymax, box2.ymax)
        intersection == Max2(0, xB - xA) * Max2(0, yB - yA)
        box1Area == (box1.xmax - box1.xmin) * (box1.ymax - box1.ymin)
        box2Area == (box2.xmax - box2.xmin) * (box2.ymax - box2.ymin)
    IN  [intersection |-> intersection, union |-> box1Area + box2Area - intersection]

\* calculateIoU(box1, box2) >= pct/100, where the result is 0 when union <= 0.
IoUAtLeast(box1, box2, pct) ==
    LET p == IoUParts(box1, box2)
    IN  IF p.union > 0 THEN 100 * p.intersection >= pct * p.union
        ELSE 0 >= pct

\* Math.round(c * 10) for the centre c = (lo + hi) / 2 of an axis.
RoundCentre(lo, hi) == (lo + hi + 100) \div 200

\* generateSpatialKey
GenerateSpatialKey(defectType, bbox) ==
    <<ToLowerCase(defectType), RoundCentre(bbox.xmin, bbox.xmax),
      RoundCentre(bbox.ymin, bbox.ymax)>>

\* The squared distance between the two box centres, times 4.
CentreDistSq4(b1, b2) ==
    LET dx == (b1.xmin + b1.xmax) - (b2.xmin + b2.xmax)
        dy == (b1.ymin + b1.ymax) - (b2.ymin + b2.ymax)
    IN  dx * dx + dy * dy

\* distance < tolerance
CentresCloserThan(b1, b2, tol) == CentreDistSq4(b1, b2) < 4 * tol * tol

\* The pruning with the property client's window for both clients.
PruneRecentOneWindow(list, t, pf) ==
    LET Keep(d) == t - d.timestamp < DEDUP_TIME_WINDOW_MS
    IN  SelectSeq(list, Keep)

(***************************************************************************)
(* Deduplication filter                                                    *)
(***************************************************************************)
\* The filter of isDuplicate: the records younger than the dedup window.
PruneRecent(list, t, pf) ==
    LET Keep(d) == t - d.timestamp < DedupWindow(pf)
    IN  SelectSeq(list, Keep)

\* The loop comparing the types as they are spelled.
RECURSIVE DuplicateScanCaseSensitive(_, _, _, _, _)
DuplicateScanCaseSensitive(list, i, defectType, bbox, pf) ==
    IF i > Len(list) THEN FALSE
    ELSE LET recent == list[i]
         IN  IF recent.defectType # defectType
             THEN DuplicateScanCaseSensitive(list, i + 1, defectType, bbox, pf)
             ELSE IF HasBox(bbox) /\ HasBox(recent.bbox)
                  THEN IF CentresCloserThan(bbox, recent.bbox, DedupTolerance(pf))
                       THEN TRUE
                       ELSE DuplicateScanCaseSensitive(list, i + 1, defectType, bbox, pf)
                  ELSE TRUE

\* The for loop of isDuplicate, from record i on.
RECURSIVE DuplicateScan(_, _, _, _, _)
DuplicateScan(list, i, defectType, bbox, pf) ==
    IF i > Len(list) THEN FALSE
    ELSE LET recent == list[i]
         IN  IF ToLowerCase(recent.defectType) # ToLowerCase(defectType)
             THEN DuplicateScan(list, i + 1, defectType, bbox, pf)
             ELSE IF HasBox(bbox) /\ HasBox(recent.bbox)
                  THEN IF CentresCloserThan(bbox, recent.bbox, DedupTolerance(pf))
                       THEN TRUE
                       ELSE DuplicateScan(list, i + 1, defectType, bbox, pf)
                  ELSE TRUE

\* isDuplicate recording the candidate it flags.
IsDuplicateRecording(list, defectType, bbox, t, pf) ==
    LET kept == PruneRecent(list, t, pf)
        dup == DuplicateScan(kept, 1, defectType, bbox, pf)
    IN  [list |-> IF dup
                  THEN Append(kept, [defectType |-> defectType, bbox |-> bbox,
                                     timestamp |-> t])
                  ELSE kept,
         dup |-> dup]

\* isDuplicate: prunes the list, then scans it.
IsDuplicate(list, defectType, bbox, t, pf) ==
    LET kept == PruneRecent(list, t, pf)
    IN  [list |-> kept, dup |-> DuplicateScan(kept, 1, defectType, bbox, pf)]

\* trackDetection
TrackDetection(list, defectType, bbox, t) ==
    Append(list, [defectType |-> defectType, bbox |-> bbox, timestamp |-> t])

\* The first loop deleting nothing.
PruneTemporalKeepsAll(buf, t) == buf

(***************************************************************************)
(* Temporal consistency tracker                                            *)
(***************************************************************************)
\* The first loop of checkTemporalConsistency: evict what was last seen too long ago.
PruneTemporal(buf, t) ==
    LET Keep(d) == ~(t - d.lastSeen > TEMPORAL_WINDOW_MS)
    IN  SelectSeq(buf, Keep)

\* The second loop: the index of the first candidate of the same type whose box
\* overlaps enough, 0 when there is none.
RECURSIVE TemporalMatch(_, _, _, _)
TemporalMatch(buf, i, defectType, bbox) ==
    IF i > Len(buf) THEN 0
    ELSE IF /\ ToLowerCase(buf[i].defectType) = ToLowerCase(defectType)
            /\ IoUAtLeast(buf[i].bbox, bbox, IOU_THRESHOLD_NUM)
         THEN i
         ELSE TemporalMatch(buf, i + 1, defectType, bbox)

\* Map.set: replaces the entry of an existing key where it stands, else appends.
MapSet(buf, entry) ==
    IF \E i \in 1..Len(buf) : buf[i].key = entry.key
    THEN [i \in 1..Len(buf) |-> IF buf[i].key = entry.key THEN entry ELSE buf[i]]
    ELSE Append(buf, entry)

\* checkTemporalConsistency confirming only above the threshold.
CheckTemporalConsistencyAbove(buf, defectType, bbox, confidence, t, threshold) ==
    LET kept == PruneTemporal(buf, t)
        m == TemporalMatch(kept, 1, defectType, bbox)
    IN  IF m > 0
        THEN LET upd == [kept[m] EXCEPT !.frameCount = @ + 1,
                                        !.lastSeen = t,
                                        !.confidence = Max2(@, confidence)]
             IN  [buf |-> [kept EXCEPT ![m] = upd],
                  isConfirmed |-> upd.frameCount > threshold,
                  frameCount |-> upd.frameCount]
        ELSE [buf |-> MapSet(kept, [key |-> GenerateSpatialKey(defectType, bbox),
                                    defectType |-> defectType, bbox |-> bbox,
                                    confidence |-> confidence, frameCount |-> 1,
                                    firstSeen |-> t, lastSeen |-> t]),
              isConfirmed |-> threshold < 1,
              frameCount |-> 1]

\* checkTemporalConsistency keeping the confidence of the latest sighting.
CheckTemporalConsistencyLatest(buf, defectType, bbox, confidence, t, threshold) ==
    LET kept == PruneTemporal(buf, t)
        m == TemporalMatch(kept, 1, defectType, bbox)
    IN  IF m > 0
        THEN LET upd == [kept[m] EXCEPT !.frameCount = @ + 1,
                                        !.lastSeen = t,
                                        !.confidence = confidence]
             IN  [buf |-> [kept EXCEPT ![m] = upd],
                  isConfirmed |-> upd.frameCount >= threshold,
                  frameCount |-> upd.frameCount]
        ELSE [buf |-> MapSet(kept, [key |-> GenerateSpatialKey(defectType, bbox),
                                    defectType |-> defectType, bbox |-> bbox,
                                    confidence |-> confidence, frameCount |-> 1,
                                    firstSeen |-> t, lastSeen |-> t]),
              isConfirmed |-> threshold <= 1,
              frameCount |-> 1]

\* checkTemporalConsistency, for a threshold
CheckTemporalConsistency(buf, defectType, bbox, confidence, t, threshold) ==
    LET kept == PruneTemporal(buf, t)
        m == TemporalMatch(kept, 1, defectType, bbox)
    IN  IF m > 0
        THEN LET upd == [kept[m] EXCEPT !.frameCount = @ + 1,
                                        !.lastSeen = t,
                                        !.confidence = Max2(@, confidence)]
             IN  [buf |-> [kept EXCEPT ![m] = upd],
                  isConfirmed |-> upd.frameCount >= threshold,
                  frameCount |-> upd.frameCount]
        ELSE [buf |-> MapSet(kept, [key |-> GenerateSpatialKey(defectType, bbox),
                                    defectType |-> defectType, bbox |-> bbox,
                                    confidence |-> confidence, frameCount |-> 1,
                                    firstSeen |-> t, lastSeen |-> t]),
              isConfirmed |-> threshold <= 1,
              frameCount |-> 1]

(***************************************************************************)
(* Non-maximum suppression tracker                                         *)
(***************************************************************************)
\* The filter of shouldSuppressNMS: the records younger than the NMS window.
PruneConfirmed(list, t) ==
    LET Keep(d) == t - d.timestamp < NMS_WINDOW_MS
    IN  SelectSeq(list, Keep)

\* The loop suppressing only a strictly less confident candidate.
RECURSIVE SuppressScanStrict(_, _, _, _)
SuppressScanStrict(list, i, bbox, confidence) ==
    IF i > Len(list) THEN FALSE
    ELSE IF /\ IoUAtLeast(list[i].bbox, bbox, NMS_IOU_THRESHOLD_NUM)
            /\ confidence < list[i].confidence
         THEN TRUE
         ELSE SuppressScanStrict(list, i + 1, bbox, confidence)

\* The for loop of shouldSuppressNMS, from record i on.
RECURSIVE SuppressScan(_, _, _, _)
SuppressScan(list, i, bbox, confidence) ==
    IF i > Len(list) THEN FALSE
    ELSE IF /\ IoUAtLeast(list[i].bbox, bbox, NMS_IOU_THRESHOLD_NUM)
            /\ confidence <= list[i].confidence
         THEN TRUE
         ELSE SuppressScan(list, i + 1, bbox, confidence)

\* shouldSuppressNMS recording the candidate it suppresses.
ShouldSuppressNMSRecording(list, defectType, bbox, confidence, t) ==
    LET kept == PruneConfirmed(list, t)
        suppress == SuppressScan(kept, 1, bbox, confidence)
    IN  [list |-> IF suppress
                  THEN Append(kept, [defectType |-> defectType, bbox |-> bbox,
                                     confidence |-> confidence, timestamp |-> t])
                  ELSE kept,
         suppress |-> suppress]

\* shouldSuppressNMS that prunes the list and suppresses nothing.
ShouldSuppressNMSNever(list, defectType, bbox, confidence, t) ==
    [list |-> PruneConfirmed(list, t), suppress |-> FALSE]

\* shouldSuppressNMS: prunes the list, then scans it.
ShouldSuppressNMS(list, defectType, bbox, confidence, t) ==
    LET kept == PruneConfirmed(list, t)
    IN  [list |-> kept, suppress |-> SuppressScan(kept, 1, bbox, confidence)]

\* trackConfirmedDetection without the removal of the overlapped record.
TrackConfirmedDetectionKeepsAll(list, defectType, bbox, confidence, t) ==
    Append(list, [defectType |-> defectType, bbox |-> bbox,
                  confidence |-> confidence, timestamp |-> t])

\* trackConfirmedDetection
TrackConfirmedDetection(list, defectType, bbox, confidence, t) ==
    LET Keep(d) == ~(IoUAtLeast(d.bbox, bbox, NMS_IOU_THRESHOLD_NUM) /\ d.confidence < confidence)
    IN  Append(SelectSeq(list, Keep),
               [defectType |-> defectType, bbox |-> bbox,
                confidence |-> confidence, timestamp |-> t])

(***************************************************************************)
(* Detector payloads                                                       *)
(*                                                                         *)
(* text: "none" has no {...}, "bad" has one that JSON.parse rejects,       *)
(* "json" parses.  confidence is <<>> (absent or not a number) or <<n>>.   *)
(* box_2d is <<>> (absent) or the array of raw numbers, each times 1000.   *)
(* defectType is "" when absent; typeIsString tells a string from another  *)
(* truthy value.                                                           *)
(***************************************************************************)
Payload(text, type, defectType, typeIsString, confidence, box_2d) ==
    [text |-> text, type |-> type, defectType |-> defectType,
     typeIsString |-> typeIsString, confidence |-> confidence, box_2d |-> box_2d]

\* Math.max(ymin, xmin, ymax, xmax)
MaxCoord(raw) == Max2(Max2(raw[1], raw[2]), Max2(raw[3], raw[4]))

\* The scale branch taking every scale above 1 for the 0-100 scale.
ScaleCoordPercentOnly(v, maxCoord) ==
    IF maxCoord > 1 * 1000 THEN v \div 100 ELSE v

\* The scale branch of parseDefectResponse: one raw number to permille.
ScaleCoord(v, maxCoord) ==
    IF maxCoord > 100 * 1000 THEN v \div 1000
    ELSE IF maxCoord > 1 * 1000 THEN v \div 100
    ELSE v

\* The normalisation without the swap of inverted pairs.
NormalizeBoxNoSwap(raw) ==
    LET m == MaxCoord(raw)
        b == Box(Clamp(0, 1000, ScaleCoord(raw[1], m)), Clamp(0, 1000, ScaleCoord(raw[2], m)),
                 Clamp(0, 1000, ScaleCoord(raw[3], m)), Clamp(0, 1000, ScaleCoord(raw[4], m)))
    IN  IF b.ymax <= b.ymin \/ b.xmax <= b.xmin THEN NoBox ELSE b

\* Scale detection, swap of inverted pairs, clamp to [0,1], and the check
\* that discards a box of no height or no width.
NormalizeBox(raw) ==
    LET m == MaxCoord(raw)
        y1 == ScaleCoord(raw[1], m)
        x1 == ScaleCoord(raw[2], m)
        y2 == ScaleCoord(raw[3], m)
        x2 == ScaleCoord(raw[4], m)
        b == Box(Clamp(0, 1000, Min2(y1, y2)), Clamp(0, 1000, Min2(x1, x2)),
                 Clamp(0, 1000, Max2(y1, y2)), Clamp(0, 1000, Max2(x1, x2)))
    IN  IF b.ymax <= b.ymin \/ b.xmax <= b.xmin THEN NoBox ELSE b

\* The strict validation discarding a box at the least area too.
StrictBoxAtEdge(b) ==
    IF ~HasBox(b) THEN NoBox
    ELSE LET boxWidth == b.xmax - b.xmin
             boxHeight == b.ymax - b.ymin
             area == boxWidth * boxHeight
         IN  IF area <= 1000 THEN NoBox
             ELSE IF area > 700000 THEN NoBox
             ELSE IF Max2(boxWidth, boxHeight) > 15 * Min2(boxWidth, boxHeight) THEN NoBox
             ELSE b

\* The strict bounding box validation: area and aspect ratio.
StrictBox(b) ==
    IF ~HasBox(b) THEN NoBox
    ELSE LET boxWidth == b.xmax - b.xmin
             boxHeight == b.ymax - b.ymin
             area == boxWidth * boxHeight
         IN  IF area < 1000 THEN NoBox
             ELSE IF area > 700000 THEN NoBox
             ELSE IF Max2(boxWidth, boxHeight) > 15 * Min2(boxWidth, boxHeight) THEN NoBox
             ELSE b

\* The bounding box of parseDefectResponse.
ParseBox(box_2d) ==
    IF Len(box_2d) >= 4 THEN StrictBox(NormalizeBox(box_2d)) ELSE NoBox

\* The bounding box of handleEvidenceDetection: clamped, nothing else.
ForensicBox(box_2d) ==
    IF Len(box_2d) >= 4
    THEN Box(Clamp(0, 1000, box_2d[1]), Clamp(0, 1000, box_2d[2]),
             Clamp(0, 1000, box_2d[3]), Clamp(0, 1000, box_2d[4]))
    ELSE NoBox

\* The confidence of both validators: the default when not a number, clamped.
ParseConfidence(confidence) ==
    Clamp(0, 100, IF confidence = <<>> THEN DEFAULT_CONFIDENCE ELSE confidence[1])

\* The defect handed to addDefect.
Defect(type, bbox, confidence, t) ==
    [type |-> type, boundingBox |-> bbox, confidence |-> confidence, timestamp |-> t]

\* "AUTHENTICITY: " + concern
AlertType(concern) ==
    CASE concern = "staging" -> "AUTHENTICITY: staging"
      [] concern = "cloning_artifact" -> "AUTHENTICITY: cloning_artifact"
      [] OTHER -> "AUTHENTICITY: unknown"

(***************************************************************************)
(* Handlers.  A handler takes the World, the record of everything a        *)
(* message handler can change, and returns the World it leaves.            *)
(***************************************************************************)
World ==
    [isReady |-> isReady, serviceStatus |-> serviceStatus, socks |-> socks,
     timers |-> timers, frameInterval |-> frameInterval,
     recent |-> recentDetections, temporal |-> temporalBuffer,
     confirmed |-> confirmedDetections, session |-> session,
     defects |-> defects, logs |-> lastLogs]

\* addDefect putting the new defect last.
AddDefectLast(list, d) == Append(list, d)

\* store.addDefect: the new defect goes first.
AddDefect(list, d) == <<d>> \o list

\* The chain with the temporal stage run ahead of the dedup stage.
FilterChainTemporalFirst(W, defectType, bbox, confidence, t) ==
    LET tc == CheckTemporalConsistency(W.temporal, defectType, bbox,
                                       confidence, t, TEMPORAL_THRESHOLD)
        dd == IsDuplicate(W.recent, defectType, bbox, t, "property")
    IN  IF ~HasBox(bbox)
        THEN IF dd.dup
             THEN [W EXCEPT !.recent = dd.list, !.logs = <<"duplicate">>]
             ELSE [W EXCEPT !.recent = TrackDetection(dd.list, defectType, bbox, t),
                            !.defects = AddDefect(@, Defect(defectType, bbox, confidence, t)),
                            !.logs = <<"detected">>]
        ELSE IF ~tc.isConfirmed
        THEN [W EXCEPT !.temporal = tc.buf, !.logs = <<"awaiting">>]
        ELSE IF dd.dup
        THEN [W EXCEPT !.recent = dd.list, !.temporal = tc.buf, !.logs = <<"duplicate">>]
        ELSE LET nm == ShouldSuppressNMS(W.confirmed, defectType, bbox, confidence, t)
             IN  IF nm.suppress
                 THEN [W EXCEPT !.recent = dd.list, !.temporal = tc.buf,
                                !.confirmed = nm.list,
                                !.logs = <<"confirmed", "nms_suppressed">>]
                 ELSE [W EXCEPT
                         !.recent = TrackDetection(dd.list, defectType, bbox, t),
                         !.temporal = tc.buf,
                         !.confirmed = TrackConfirmedDetection(nm.list, defectType,
                                                               bbox, confidence, t),
                         !.defects = AddDefect(@, Defect(defectType, bbox, confidence, t)),
                         !.logs = <<"confirmed", "detected">>]

\* The chain evicting expired candidates for a detection without a box too.
FilterChainTypeOnlyPrunes(W, defectType, bbox, confidence, t) ==
    LET dd == IsDuplicate(W.recent, defectType, bbox, t, "property")
    IN  IF dd.dup
        THEN [W EXCEPT !.recent = dd.list, !.logs = <<"duplicate">>]
        ELSE IF HasBox(bbox)
        THEN LET tc == CheckTemporalConsistency(W.temporal, defectType, bbox,
                                                confidence, t, TEMPORAL_THRESHOLD)
             IN  IF ~tc.isConfirmed
                 THEN [W EXCEPT !.recent = dd.list, !.temporal = tc.buf,
                                !.logs = <<"awaiting">>]
                 ELSE LET nm == ShouldSuppressNMS(W.confirmed, defectType, bbox, confidence, t)
                      IN  IF nm.suppress
                          THEN [W EXCEPT !.recent = dd.list, !.temporal = tc.buf,
                                         !.confirmed = nm.list,
                                         !.logs = <<"confirmed", "nms_suppressed">>]
                          ELSE [W EXCEPT
                                  !.recent = TrackDetection(dd.list, defectType, bbox, t),
                                  !.temporal = tc.buf,
                                  !.confirmed = TrackConfirmedDetection(nm.list, defectType,
                                                                        bbox, confidence, t),
                                  !.defects = AddDefect(@, Defect(defectType, bbox, confidence, t)),
                                  !.logs = <<"confirmed", "detected">>]
        ELSE [W EXCEPT !.recent = TrackDetection(dd.list, defectType, bbox, t),
                       !.temporal = PruneTemporal(@, t),
                       !.defects = AddDefect(@, Defect(defectType, bbox, confidence, t)),
                       !.logs = <<"detected">>]

\* parseDefectResponse from the deduplication on: Dedup, Temporal, NMS, emit.
FilterChain(W, defectType, bbox, confidence, t) ==
    LET dd == IsDuplicate(W.recent, defectType, bbox, t, "property")
    IN  IF dd.dup
        THEN [W EXCEPT !.recent = dd.list, !.logs = <<"duplicate">>]
        ELSE IF HasBox(bbox)
        THEN LET tc == CheckTemporalConsistency(W.temporal, defectType, bbox,
                                                confidence, t, TEMPORAL_THRESHOLD)
             IN  IF ~tc.isConfirmed
                 THEN [W EXCEPT !.recent = dd.list, !.temporal = tc.buf,
                                !.logs = <<"awaiting">>]
                 ELSE LET nm == ShouldSuppressNMS(W.confirmed, defectType, bbox, confidence, t)
                      IN  IF nm.suppress
                          THEN [W EXCEPT !.recent = dd.list, !.temporal = tc.buf,
                                         !.confirmed = nm.list,
                                         !.logs = <<"confirmed", "nms_suppressed">>]
                          ELSE [W EXCEPT
                                  !.recent = TrackDetection(dd.list, defectType, bbox, t),
                                  !.temporal = tc.buf,
                                  !.confirmed = TrackConfirmedDetection(nm.list, defectType,
                                                                        bbox, confidence, t),
                                  !.defects = AddDefect(@, Defect(defectType, bbox, confidence, t)),
                                  !.logs = <<"confirmed", "detected">>]
        ELSE [W EXCEPT !.recent = TrackDetection(dd.list, defectType, bbox, t),
                       !.defects = AddDefect(@, Defect(defectType, bbox, confidence, t)),
                       !.logs = <<"detected">>]

\* parseDefectResponse dropping a detection at the threshold too.
ParseDefectResponseAboveOnly(W, p, t) ==
    IF p.text = "none" THEN [W EXCEPT !.logs = <<"no_json">>]
    ELSE IF p.text = "bad" THEN [W EXCEPT !.logs = <<"parse_error">>]
    ELSE IF p.type = "clear" \/ p.defectType = "" THEN [W EXCEPT !.logs = <<"clear">>]
    ELSE IF ~p.typeIsString THEN [W EXCEPT !.logs = <<"missing_type">>]
    ELSE LET confidence == ParseConfidence(p.confidence)
         IN  IF confidence <= MIN_CONFIDENCE_THRESHOLD
             THEN [W EXCEPT !.logs = <<"filtered">>]
             ELSE FilterChain(W, p.defectType, ParseBox(p.box_2d), confidence, t)

\* parseDefectResponse recording for dedup the detection it filters out.
ParseDefectResponseTracksFiltered(W, p, t) ==
    IF p.text = "none" THEN [W EXCEPT !.logs = <<"no_json">>]
    ELSE IF p.text = "bad" THEN [W EXCEPT !.logs = <<"parse_error">>]
    ELSE IF p.type = "clear" \/ p.defectType = "" THEN [W EXCEPT !.logs = <<"clear">>]
    ELSE IF ~p.typeIsString THEN [W EXCEPT !.logs = <<"missing_type">>]
    ELSE LET confidence == ParseConfidence(p.confidence)
         IN  IF confidence < MIN_CONFIDENCE_THRESHOLD
             THEN [W EXCEPT !.recent = TrackDetection(@, p.defectType, ParseBox(p.box_2d), t),
                            !.logs = <<"filtered">>]
             ELSE FilterChain(W, p.defectType, ParseBox(p.box_2d), confidence, t)

\* parseDefectResponse
ParseDefectResponse(W, p, t) ==
    IF p.text = "none" THEN [W EXCEPT !.logs = <<"no_json">>]
    ELSE IF p.text = "bad" THEN [W EXCEPT !.logs = <<"parse_error">>]
    ELSE IF p.type = "clear" \/ p.defectType = "" THEN [W EXCEPT !.logs = <<"clear">>]
    ELSE IF ~p.typeIsString THEN [W EXCEPT !.logs = <<"missing_type">>]
    ELSE LET confidence == ParseConfidence(p.confidence)
         IN  IF confidence < MIN_CONFIDENCE_THRESHOLD
             THEN [W EXCEPT !.logs = <<"filtered">>]
             ELSE FilterChain(W, p.defectType, ParseBox(p.box_2d), confidence, t)

\* logChainOfCustody
LogChainOfCustody(sess, action) ==
    IF ~HasSession(sess) THEN sess
    ELSE [sess EXCEPT !.chainOfCustody = Append(@, action)]

\* handleAuthenticityAlert
HandleAuthenticityAlert(W, p, t) ==
    IF ~HasSession(W.session) THEN W
    ELSE [W EXCEPT
            !.session = LogChainOfCustody(
                            [@ EXCEPT !.authenticityAlerts = Append(@, p.defectType)],
                            "authenticity_concern"),
            !.defects = AddDefect(@, Defect(AlertType(p.defectType), NoBox, ALERT_CONFIDENCE, t)),
            !.logs = <<"authenticity_alert">>]

\* handleEvidenceDetection
HandleEvidenceDetection(W, p, t) ==
    IF ~HasSession(W.session) THEN W
    ELSE LET evidenceType == p.defectType
             confidence == ParseConfidence(p.confidence)
             bbox == ForensicBox(p.box_2d)
         IN  IF confidence < FORENSIC_MIN_CONFIDENCE_THRESHOLD
             THEN [W EXCEPT !.logs = <<"filtered">>]
             ELSE LET dd == IsDuplicate(W.recent, evidenceType, bbox, t, "forensic")
                  IN  IF dd.dup
                      THEN [W EXCEPT !.recent = dd.list, !.logs = <<"duplicate">>]
                      ELSE [W EXCEPT
                              !.recent = TrackDetection(dd.list, evidenceType, bbox, t),
                              !.session = LogChainOfCustody(
                                              [@ EXCEPT !.evidence = Append(@, evidenceType)],
                                              "evidence_detected"),
                              !.defects = AddDefect(@, Defect(evidenceType, bbox, confidence, t)),
                              !.logs = <<"detected">>]

\* parseForensicResponse
ParseForensicResponse(W, p, t) ==
    IF ~HasSession(W.session) THEN W
    ELSE IF p.text = "none" THEN [W EXCEPT !.logs = <<"no_json">>]
    ELSE IF p.text = "bad" THEN [W EXCEPT !.logs = <<"parse_error">>]
    ELSE IF p.type = "scanning" THEN [W EXCEPT !.logs = <<"scanning">>]
    ELSE IF p.type = "authenticity_alert" THEN HandleAuthenticityAlert(W, p, t)
    ELSE IF p.type = "evidence" /\ p.defectType # ""
         THEN HandleEvidenceDetection(W, p, t)
         ELSE [W EXCEPT !.logs = <<"ignored">>]

\* The text of a detector message reaches the parser of the client in use.
ParseResponse(W, p, t) ==
    IF profile = "forensic" THEN ParseForensicResponse(W, p, t)
    ELSE ParseDefectResponse(W, p, t)

(***************************************************************************)
(* Inputs                                                                  *)
(***************************************************************************)
MaxDefects == 2
MaxFrameCount == 2
MaxStarts == 2
MaxBlobs == 1
MaxRequests == 2

\* Raw boxes [ymin, xmin, ymax, xmax], each number times 1000.
\* RawBoxA is on the 0-1000 scale; RawBoxA2 is the same box moved right by
\* 0.05, on the 0-100 scale; RawBoxB is the same box moved right by 0.2, on
\* the 0-1 scale.  The three overlap one another with IoU >= 0.5.  RawBoxC
\* is a quarter of RawBoxA's area, with IoU < 0.5 against the three.
RawBoxA == <<0, 0, 800000, 800000>>
RawBoxA2 == <<0, 5000, 80000, 85000>>
RawBoxB == <<0, 200, 800, 1000>>
RawBoxC == <<0, 0, 400, 400>>

\* The label field and message type of the client in use.
Detection(pf, label, confidence, box_2d) ==
    Payload("json", IF pf = "forensic" THEN "evidence" ELSE "defect",
            label, TRUE, confidence, box_2d)

\* What the detector may send in the pipeline specification.
Payloads(pf) ==
    { Detection(pf, "crack", <<60>>, RawBoxA),
      Detection(pf, "Crack", <<90>>, RawBoxA2),
      Detection(pf, "crack", <<90>>, RawBoxB),
      Detection(pf, "crack", <<60>>, RawBoxB),
      Detection(pf, "mold", <<60>>, RawBoxC),
      Detection(pf, "mold", <<>>, <<>>),
      Detection(pf, "mold", <<59>>, RawBoxA),
      Detection(pf, "mold", <<150>>, <<>>),
      Payload("none", "", "", TRUE, <<>>, <<>>),
      Payload("bad", "", "", TRUE, <<>>, <<>>),
      Payload("json", "clear", "", TRUE, <<>>, <<>>),
      Payload("json", "scanning", "", TRUE, <<>>, <<>>),
      Payload("json", "defect", "seven", FALSE, <<90>>, <<>>),
      Payload("json", "authenticity_alert", "staging", TRUE, <<>>, <<>>) }

\* What the detector may send in the life-cycle specification.
SessionPayloads(pf) ==
    { Detection(pf, "crack", <<90>>, RawBoxB) }

\* The instants the clock is read at.  For each window two of them lie
\* apart by the window exactly and two by a millisecond less or more (the
\* dedup window: both), so that a record is met on either side of the edge
\* of every window.
Instants(pf) ==
    {0, 1, TEMPORAL_WINDOW_MS + 1, NMS_WINDOW_MS, DedupWindow(pf), DedupWindow(pf) + 1}

\* The instants of the life-cycle specification: within every window of the
\* start, and past all of them.
SessionInstants(pf) == {0, 1, DedupWindow(pf) + 1}

Profiles == {"property", "forensic"}

(***************************************************************************)
(* Session life cycle                                                      *)
(***************************************************************************)
NewSocket ==
    [st |-> "connecting", promise |-> "pending", timeout |-> TRUE,
     fed |-> FALSE, blobs |-> <<>>]

Timer(id, kind) == [id |-> id, kind |-> kind]

\* startStreaming after `await this.connectLive()`, for start call i whose
\* promise is resolved with v.  A promise already resolved stays as it is.
\* The continuation runs as a microtask of the handler that resolved.
Resolve(W, i, v) ==
    IF W.socks[i].promise # "pending" THEN W
    ELSE IF v
    THEN [W EXCEPT !.socks[i].promise = "true",
                   !.frameInterval = i,
                   !.timers = @ \cup {Timer(i, "live")}]
    ELSE [W EXCEPT !.socks[i].promise = "false",
                   !.isReady = TRUE,
                   !.serviceStatus = "online",
                   !.frameInterval = i,
                   !.timers = @ \cup {Timer(i, "fallback")}]

\* clearTimeout(timeout) of the connectLive call i
ClearTimeout(W, i) == [W EXCEPT !.socks[i].timeout = FALSE]

\* ws.onmessage of socket i once the data is parsed
OnMessageData(W, i, m, t) ==
    IF m.kind = "setupComplete"
    THEN Resolve([ClearTimeout(W, i) EXCEPT !.isReady = TRUE, !.serviceStatus = "online"],
                 i, TRUE)
    ELSE IF m.kind = "error"
    THEN Resolve(ClearTimeout(W, i), i, FALSE)
    ELSE ParseResponse(W, m.payload, t)

\* The assignment of a World to the variables it holds.
Apply(W) ==
    /\ isReady' = W.isReady
    /\ serviceStatus' = W.serviceStatus
    /\ socks' = W.socks
    /\ timers' = W.timers
    /\ frameInterval' = W.frameInterval
    /\ recentDetections' = W.recent
    /\ temporalBuffer' = W.temporal
    /\ confirmedDetections' = W.confirmed
    /\ session' = W.session
    /\ defects' = W.defects
    /\ lastLogs' = W.logs

\* The model stops feeding messages once a bound is met.
WithinBounds ==
    /\ Len(defects) < MaxDefects
    /\ \A k \in 1..Len(temporalBuffer) : temporalBuffer[k].frameCount < MaxFrameCount

SetupComplete == [kind |-> "setupComplete", payload |-> Payload("none", "", "", TRUE, <<>>, <<>>)]
ServerError == [kind |-> "error", payload |-> Payload("none", "", "", TRUE, <<>>, <<>>)]
Content(p) == [kind |-> "content", payload |-> p]

\* The messages the server may send on socket i: setupComplete and error at
\* any time, a detection once a frame was sent on it.
ServerMessages(i, payloads) ==
    {SetupComplete, ServerError} \cup
    (IF socks[i].fed THEN {Content(p) : p \in payloads} ELSE {})

Init ==
    /\ profile \in Profiles
    /\ now = 0
    /\ isReady = FALSE
    /\ ws = 0
    /\ frameInterval = 0
    /\ abortController = 0
    /\ recentDetections = <<>>
    /\ temporalBuffer = <<>>
    /\ confirmedDetections = <<>>
    /\ session = NoSession
    /\ defects = <<>>
    /\ lastLogs = <<>>
    /\ isScanning = FALSE
    /\ serviceStatus = "offline"
    /\ socks = <<>>
    /\ timers = {}
    /\ requests = <<>>

\* The clock moves on to t.
Tick(t) ==
    /\ t > now
    /\ now' = t
    /\ UNCHANGED <<profile, isReady, ws, frameInterval, abortController,
                   recentDetections, temporalBuffer, confirmedDetections, session,
                   defects, lastLogs, isScanning, serviceStatus, socks, timers, requests>>

\* App.handleToggleScan when not scanning, and startStreaming up to its await:
\* startInspection, setScanning, startSession (forensic), a new abort
\* controller, and connectLive's new WebSocket and timeout.
StartStreaming ==
    /\ ~isScanning
    /\ Len(socks) < MaxStarts
    /\ LET i == Len(socks) + 1
       IN  /\ socks' = Append(socks, NewSocket)
           /\ ws' = i
           /\ abortController' = i
           /\ session' = IF profile = "forensic"
                         THEN [NoSession EXCEPT !.id = i,
                                                !.chainOfCustody = <<"session_started">>]
                         ELSE session
    /\ defects' = <<>>
    /\ isScanning' = TRUE
    /\ serviceStatus' = "connecting"
    /\ lastLogs' = <<>>
    /\ UNCHANGED <<profile, now, isReady, frameInterval, recentDetections,
                   temporalBuffer, confirmedDetections, timers, requests>>

\* ws.onopen
WsOpen(i) ==
    /\ socks[i].st = "connecting"
    /\ socks' = [socks EXCEPT ![i].st = "open"]
    /\ UNCHANGED <<profile, now, isReady, ws, frameInterval, abortController,
                   recentDetections, temporalBuffer, confirmedDetections, session,
                   defects, lastLogs, isScanning, serviceStatus, timers, requests>>

\* ws.onmessage with string data: parsed and handled at once.
WsTextMessage(i, m) ==
    /\ socks[i].st = "open"
    /\ WithinBounds
    /\ Apply(OnMessageData(World, i, m, now))
    /\ UNCHANGED <<profile, now, ws, abortController, isScanning, requests>>

\* ws.onmessage with Blob data: the handler awaits event.data.text().
WsBlobMessage(i, m) ==
    /\ socks[i].st = "open"
    /\ Len(socks[i].blobs) < MaxBlobs
    /\ socks' = [socks EXCEPT ![i].blobs = Append(@, m)]
    /\ UNCHANGED <<profile, now, isReady, ws, frameInterval, abortController,
                   recentDetections, temporalBuffer, confirmedDetections, session,
                   defects, lastLogs, isScanning, serviceStatus, timers, requests>>

\* The Blob's text arrives and the handler goes on, whatever has happened
\* to the socket and the client meanwhile.
BlobText(i) ==
    /\ socks[i].blobs # <<>>
    /\ WithinBounds
    /\ LET m == Head(socks[i].blobs)
           W == [World EXCEPT !.socks[i].blobs = Tail(@)]
       IN  Apply(OnMessageData(W, i, m, now))
    /\ UNCHANGED <<profile, now, ws, abortController, isScanning, requests>>

\* ws.onerror; the socket then closes.
WsError(i) ==
    /\ socks[i].st \in {"connecting", "open"}
    /\ Apply(Resolve([ClearTimeout(World, i) EXCEPT !.socks[i].st = "closing"], i, FALSE))
    /\ UNCHANGED <<profile, now, ws, abortController, isScanning, requests>>

\* ws.onclose, after close() or when the server or the network closes it.
WsClose(i) ==
    /\ socks[i].st # "closed"
    /\ LET W == [ClearTimeout(World, i) EXCEPT !.socks[i].st = "closed"]
       IN  Apply(IF ~isReady THEN Resolve(W, i, FALSE) ELSE W)
    /\ UNCHANGED <<profile, now, ws, abortController, isScanning, requests>>

\* The 8 second timeout of connectLive call i; this.ws?.close() closes the
\* client's current socket.
ConnectTimeout(i) ==
    /\ socks[i].timeout
    /\ LET W0 == [World EXCEPT !.socks[i].timeout = FALSE]
           W1 == IF ws # 0 /\ W0.socks[ws].st \in {"connecting", "open"}
                 THEN [W0 EXCEPT !.socks[ws].st = "closing"] ELSE W0
       IN  Apply(IF ~isReady THEN Resolve(W1, i, FALSE) ELSE W0)
    /\ UNCHANGED <<profile, now, ws, abortController, isScanning, requests>>

\* The 250 ms interval of the Live API mode: sendLiveFrame.
LiveTimer(tm) ==
    /\ tm \in timers /\ tm.kind = "live"
    /\ isReady /\ ws # 0 /\ socks[ws].st = "open"
    /\ socks' = [socks EXCEPT ![ws].fed = TRUE]
    /\ UNCHANGED <<profile, now, isReady, ws, frameInterval, abortController,
                   recentDetections, temporalBuffer, confirmedDetections, session,
                   defects, lastLogs, isScanning, serviceStatus, timers, requests>>

\* The 1.5 s interval of the REST mode: sendFallbackFrame, and
\* analyzeFrameFallback / analyzeForensicFrame up to the fetch, whose signal
\* is that of the client's abort controller at that moment (0: none) and
\* whose body is the frame drawn from the video at that moment.
FallbackTimer(tm) ==
    /\ tm \in timers /\ tm.kind = "fallback"
    /\ isReady
    /\ profile = "forensic" => HasSession(session)
    /\ Len(requests) < MaxRequests
    /\ requests' = Append(requests, [signal |-> abortController, frame |-> now])
    /\ UNCHANGED <<profile, now, isReady, ws, frameInterval, abortController,
                   recentDetections, temporalBuffer, confirmedDetections, session,
                   defects, lastLogs, isScanning, serviceStatus, socks, timers>>

RemoveAt(s, k) == [j \in 1..(Len(s) - 1) |-> IF j < k THEN s[j] ELSE s[j + 1]]

\* The response of REST request k arrives with a text.
RestResponse(k, p) ==
    /\ k \in 1..Len(requests)
    /\ WithinBounds
    /\ requests' = RemoveAt(requests, k)
    /\ Apply(ParseResponse(World, p, now))
    /\ UNCHANGED <<profile, now, ws, abortController, isScanning>>

\* The response of REST request k is an error, or holds no text.
RestFailure(k) ==
    /\ k \in 1..Len(requests)
    /\ requests' = RemoveAt(requests, k)
    /\ UNCHANGED <<profile, now, isReady, ws, frameInterval, abortController,
                   recentDetections, temporalBuffer, confirmedDetections, session,
                   defects, lastLogs, isScanning, serviceStatus, socks, timers>>

\* stop() without the reset of the dedup list.
ClientStopKeepsDedup(W) ==
    LET W1 == [W EXCEPT !.timers = {tm \in @ : tm.id # W.frameInterval},
                        !.frameInterval = 0,
                        !.temporal = <<>>,
                        !.confirmed = <<>>,
                        !.isReady = FALSE,
                        !.serviceStatus = "offline"]
    IN  IF ws # 0 /\ W.socks[ws].st \in {"connecting", "open"}
        THEN [W1 EXCEPT !.socks[ws].st = "closing"] ELSE W1

\* client.stop()
ClientStop(W) ==
    LET W1 == [W EXCEPT !.timers = {tm \in @ : tm.id # W.frameInterval},
                        !.frameInterval = 0,
                        !.recent = <<>>,
                        !.temporal = <<>>,
                        !.confirmed = <<>>,
                        !.isReady = FALSE,
                        !.serviceStatus = "offline"]
    IN  IF ws # 0 /\ W.socks[ws].st \in {"connecting", "open"}
        THEN [W1 EXCEPT !.socks[ws].st = "closing"] ELSE W1

\* endSession
EndSession(sess) == LogChainOfCustody(sess, "session_ended")

\* App.handleToggleScan when scanning: stop(), endSession() in forensic mode,
\* setScanning(false).  Aborting the controller rejects the fetches that hold
\* its signal.
Stop ==
    /\ isScanning
    /\ Apply([ClientStop(World) EXCEPT
                !.session = IF profile = "forensic" THEN EndSession(@) ELSE @,
                !.logs = <<"stopped">>])
    /\ LET Keep(r) == r.signal = 0 \/ r.signal # abortController
       IN  requests' = SelectSeq(requests, Keep)
    /\ abortController' = 0
    /\ ws' = 0
    /\ isScanning' = FALSE
    /\ UNCHANGED <<profile, now>>

Next ==
    \/ \E t \in SessionInstants(profile) : Tick(t)
    \/ StartStreaming
    \/ Stop
    \/ \E i \in 1..Len(socks) : WsOpen(i)
    \/ \E i \in 1..Len(socks) : \E m \in ServerMessages(i, SessionPayloads(profile)) :
           WsTextMessage(i, m)
    \/ \E i \in 1..Len(socks) : \E m \in ServerMessages(i, SessionPayloads(profile)) :
           WsBlobMessage(i, m)
    \/ \E i \in 1..Len(socks) : BlobText(i)
    \/ \E i \in 1..Len(socks) : WsError(i)
    \/ \E i \in 1..Len(socks) : WsClose(i)
    \/ \E i \in 1..Len(socks) : ConnectTimeout(i)
    \/ \E tm \in timers : LiveTimer(tm)
    \/ \E tm \in timers : FallbackTimer(tm)
    \/ \E k \in 1..Len(requests) : \E p \in SessionPayloads(profile) : RestResponse(k, p)
    \/ \E k \in 1..Len(requests) : RestFailure(k)

Spec == Init /\ [][Next]_vars

(***************************************************************************)
(* The pipeline specification: a session that is streaming in Live API     *)
(* mode (socket 1 open, set up, its frame timer running), fed every        *)
(* payload of Payloads at every instant of Instants.                       *)
(***************************************************************************)
InitCore ==
    /\ profile \in Profiles
    /\ now = 0
    /\ isReady = TRUE
    /\ ws = 1
    /\ frameInterval = 1
    /\ abortController = 1
    /\ recentDetections = <<>>
    /\ temporalBuffer = <<>>
    /\ confirmedDetections = <<>>
    /\ session = IF profile = "forensic"
                 THEN [NoSession EXCEPT !.id = 1, !.chainOfCustody = <<"session_started">>]
                 ELSE NoSession
    /\ defects = <<>>
    /\ lastLogs = <<>>
    /\ isScanning = TRUE
    /\ serviceStatus = "online"
    /\ socks = <<[NewSocket EXCEPT !.st = "open", !.promise = "true",
                                   !.timeout = FALSE, !.fed = TRUE]>>
    /\ timers = {Timer(1, "live")}
    /\ requests = <<>>

NextCore ==
    \/ \E t \in Instants(profile) : Tick(t)
    \/ \E p \in Payloads(profile) : WsTextMessage(1, Content(p))

SpecCore == InitCore /\ [][NextCore]_vars

(***************************************************************************)
(* The temporal tracker alone, with a threshold of two sightings           *)
(***************************************************************************)
\* The threshold that asks for a second sighting.
StrictThreshold == TEMPORAL_THRESHOLD + 1

\* The detections that reach the temporal stage: those with a box.
TemporalPayloads == {p \in Payloads("property") : HasBox(ParseBox(p.box_2d))}

InitTemporal == InitCore /\ profile = "property"

\* One call of checkTemporalConsistency, as parseDefectResponse makes it.
TemporalCall(p) ==
    LET tc == CheckTemporalConsistency(temporalBuffer, p.defectType, ParseBox(p.box_2d),
                                       ParseConfidence(p.confidence), now, StrictThreshold)
    IN  /\ tc.frameCount <= MaxFrameCount
        /\ temporalBuffer' = tc.buf
        /\ lastLogs' = IF tc.isConfirmed THEN <<"confirmed">> ELSE <<"awaiting">>
        /\ UNCHANGED <<profile, now, isReady, ws, frameInterval, abortController,
                       recentDetections, confirmedDetections, session, defects,
                       isScanning, serviceStatus, socks, timers, requests>>

NextTemporal ==
    \/ \E t \in Instants(profile) : Tick(t)
    \/ \E p \in TemporalPayloads : TemporalCall(p)

SpecTemporal == InitTemporal /\ [][NextTemporal]_vars

(***************************************************************************)
(* The validator of the property client over a family of raw boxes         *)
(***************************************************************************)
\* Raw boxes on the 0-1 scale about the edges of the strict validation:
\* areas 0.0009, 0.001, 0.0011, 0.70 and 0.72; aspect ratios 14, 15 and 16.
RawArea0009 == <<0, 0, 30, 30>>
RawArea0010 == <<0, 0, 25, 40>>
RawArea0011 == <<0, 0, 20, 55>>
RawArea70 == <<0, 0, 700, 1000>>
RawArea72 == <<0, 0, 900, 800>>
RawAspect14 == <<0, 0, 10, 140>>
RawAspect15 == <<0, 0, 10, 150>>
RawAspect16 == <<0, 0, 10, 160>>

\* Raw boxes about the scale detection: the documented example on the
\* 0-1000 scale, a box on the 0-100 scale, one whose greatest number is 100
\* and one whose greatest number is 1, an inverted box, a box with a negative
\* number of greater magnitude than the others, a box in pixels beyond the
\* frame, and a box of no width.
RawScenario == <<200000, 150000, 450000, 180000>>
RawPercent == <<10000, 20000, 50000, 60000>>
RawHundred == <<10000, 20000, 50000, 100000>>
RawOne == <<0, 0, 500, 1000>>
RawInverted == <<500, 600, 100, 200>>
RawNegative == <<-150000, 10000, 50000, 60000>>
RawPixels == <<0, 1200000, 500000, 1500000>>
RawNoWidth == <<100, 200, 500, 200>>

RawBoxes ==
    {RawArea0009, RawArea0010, RawArea0011, RawArea70, RawArea72,
     RawAspect14, RawAspect15, RawAspect16,
     RawScenario, RawPercent, RawHundred, RawOne, RawInverted, RawNegative,
     RawPixels, RawNoWidth}

\* The documented example message, and the same message with each raw box.
BoxPayload(raw) == Detection("property", "crack", <<85>>, raw)
BoxPayloads == {BoxPayload(raw) : raw \in RawBoxes}

InitBoxes == InitCore /\ profile = "property"

\* The same message without a box_2d.
BoxlessPayload == Detection("property", "crack", <<85>>, <<>>)

NextBoxes ==
    \/ \E t \in SessionInstants(profile) : Tick(t)
    \/ \E p \in BoxPayloads : WsTextMessage(1, Content(p))
    \/ WsTextMessage(1, Content(BoxlessPayload))

SpecBoxes == InitBoxes /\ [][NextBoxes]_vars

(***************************************************************************)
(* Properties                                                              *)
(***************************************************************************)
\* The step in which the pipeline specification hands payload p to the parser.
MessageStep(p) == WsTextMessage(1, Content(p))

\* The box and confidence the validator of the client in use gives payload p.
ValidatedBox(p) ==
    IF profile = "forensic" THEN ForensicBox(p.box_2d) ELSE ParseBox(p.box_2d)
ValidatedConfidence(p) == ParseConfidence(p.confidence)

\* What a handler logs when the message goes no further than the validator.
ValidatorLogs ==
    {<<"no_json">>, <<"parse_error">>, <<"clear">>, <<"missing_type">>,
     <<"filtered">>, <<"scanning">>, <<"ignored">>}

InSeq(x, s) == \E k \in 1..Len(s) : s[k] = x

\* The dedup rule as the specification words it: same type, and both boxed
\* with close centres, or both without a box.
SpecDuplicateRule(type1, box1, type2, box2) ==
    /\ ToLowerCase(type1) = ToLowerCase(type2)
    /\ \/ HasBox(box1) /\ HasBox(box2)
          /\ CentresCloserThan(box1, box2, DedupTolerance(profile))
       \/ ~HasBox(box1) /\ ~HasBox(box2)

\* C1: no defect handed to addDefect is a duplicate, by the dedup rule, of
\* another one handed to it less than the dedup window before.
C1_NoDuplicateEmitted ==
    \A i \in 1..Len(defects) : \A j \in (i + 1)..Len(defects) :
        defects[i].timestamp - defects[j].timestamp < DedupWindow(profile)
        => ~SpecDuplicateRule(defects[i].type, defects[i].boundingBox,
                              defects[j].type, defects[j].boundingBox)

\* C2: the stages run in the order Validator, Dedup, Temporal, NMS, and the
\* stage that drops a message leaves the state of the later stages and the
\* consumer's list as they were: the validator leaves all three collections,
\* a duplicate leaves the temporal map and the NMS list, an unconfirmed or
\* suppressed detection is not recorded for dedup, and a suppressed one has
\* been through the temporal stage but adds no NMS record.
C2_StagesShortCircuit ==
    [][\A p \in Payloads(profile) : now' = now /\ MessageStep(p) =>
          /\ lastLogs' \in ValidatorLogs =>
                /\ recentDetections' = recentDetections
                /\ temporalBuffer' = temporalBuffer
                /\ confirmedDetections' = confirmedDetections
                /\ defects' = defects
          /\ lastLogs' = <<"duplicate">> =>
                /\ recentDetections' = PruneRecent(recentDetections, now, profile)
                /\ temporalBuffer' = temporalBuffer
                /\ confirmedDetections' = confirmedDetections
                /\ defects' = defects
          /\ lastLogs' = <<"awaiting">> =>
                /\ recentDetections' = PruneRecent(recentDetections, now, profile)
                /\ confirmedDetections' = confirmedDetections
                /\ defects' = defects
          /\ lastLogs' = <<"confirmed", "nms_suppressed">> =>
                /\ recentDetections' = PruneRecent(recentDetections, now, profile)
                /\ \E k \in 1..Len(temporalBuffer') :
                       /\ temporalBuffer'[k].lastSeen = now
                       /\ ToLowerCase(temporalBuffer'[k].defectType) = ToLowerCase(p.defectType)
                /\ confirmedDetections' = PruneConfirmed(confirmedDetections, now)
                /\ defects' = defects
          /\ InSeq("detected", lastLogs') =>
                /\ Len(defects') = Len(defects) + 1
                /\ ~IsDuplicate(recentDetections, p.defectType, ValidatedBox(p),
                                now, profile).dup
                /\ HasBox(ValidatedBox(p)) /\ profile = "property" =>
                       ~ShouldSuppressNMS(confirmedDetections, p.defectType, ValidatedBox(p),
                                          ValidatedConfidence(p), now).suppress
      ]_vars

\* C2's case: a detection that passed Validator, Dedup and Temporal was
\* suppressed by NMS: the temporal map has counted it as a second sighting,
\* the dedup list and the defects hold the first sighting alone.
C2_Witness ==
    /\ lastLogs = <<"confirmed", "nms_suppressed">>
    /\ \E k \in 1..Len(temporalBuffer) : temporalBuffer[k].frameCount = 2
    /\ Len(recentDetections) = 1
    /\ Len(defects) = 1

\* C3: stop() leaves the dedup list, the temporal map and the NMS list empty,
\* so that a detection identical to one tracked before it is, right after it,
\* no duplicate, a first sighting (frameCount 1) and not suppressed.
C3_StopResetsSession ==
    [][Stop =>
          /\ recentDetections' = <<>>
          /\ temporalBuffer' = <<>>
          /\ confirmedDetections' = <<>>
          /\ \A k \in 1..Len(recentDetections) :
                 ~IsDuplicate(recentDetections', recentDetections[k].defectType,
                              recentDetections[k].bbox, now', profile).dup
          /\ \A k \in 1..Len(temporalBuffer) :
                 CheckTemporalConsistency(temporalBuffer', temporalBuffer[k].defectType,
                                          temporalBuffer[k].bbox, temporalBuffer[k].confidence,
                                          now', TEMPORAL_THRESHOLD).frameCount = 1
          /\ \A k \in 1..Len(confirmedDetections) :
                 ~ShouldSuppressNMS(confirmedDetections', confirmedDetections[k].defectType,
                                    confirmedDetections[k].bbox,
                                    confirmedDetections[k].confidence, now').suppress
      ]_vars

\* C3's case: stop() has just run on a session that had tracked a detection.
C3_Witness ==
    /\ lastLogs = <<"stopped">>
    /\ defects # <<>>
    /\ ~isScanning
    /\ recentDetections = <<>> /\ temporalBuffer = <<>> /\ confirmedDetections = <<>>

\* C4: from stop() until the next startStreaming no detection is emitted and
\* the three rolling collections stay empty.
C4_NothingAcceptedAfterStop ==
    [][~isScanning /\ ~isScanning' =>
          /\ defects' = defects
          /\ recentDetections' = <<>>
          /\ temporalBuffer' = <<>>
          /\ confirmedDetections' = <<>>
      ]_vars

\* ACTIVE: ready, with a frame timer that sends frames, and status online.
Active ==
    /\ isReady
    /\ serviceStatus = "online"
    /\ \E tm \in timers :
          \/ tm.kind = "fallback"
          \/ tm.kind = "live" /\ ws # 0 /\ socks[ws].st = "open"

\* C5: a session that has been stopped is not ACTIVE until startStreaming is
\* called again.
C5_StoppedNeverActive == ~isScanning => ~Active

\* The dedup rule with type-only matching whenever a box is missing on
\* either side.
TypeOnlyDuplicateRule(type1, box1, type2, box2) ==
    /\ ToLowerCase(type1) = ToLowerCase(type2)
    /\ \/ HasBox(box1) /\ HasBox(box2)
          /\ CentresCloserThan(box1, box2, DedupTolerance(profile))
       \/ ~(HasBox(box1) /\ HasBox(box2))

\* A record the dedup window retains at the present instant.
Retained(r) == now - r.timestamp < DedupWindow(profile)

\* C6 (as stated): isDuplicate is true exactly when a retained record has
\* the same type, case aside, and either both have boxes with centres closer
\* than the tolerance or neither has a box.
C6_DuplicateIffNeitherBoxed ==
    \A p \in Payloads(profile) :
        IsDuplicate(recentDetections, p.defectType, ValidatedBox(p), now, profile).dup
        <=> \E k \in 1..Len(recentDetections) :
                /\ Retained(recentDetections[k])
                /\ SpecDuplicateRule(p.defectType, ValidatedBox(p),
                                     recentDetections[k].defectType,
                                     recentDetections[k].bbox)

\* C6 (amended): isDuplicate is true exactly when a retained record has the
\* same type, case aside, and either both have boxes with centres closer
\* than the tolerance or at least one of the two has no box.
C6_DuplicateIffTypeOnly ==
    \A p \in Payloads(profile) :
        IsDuplicate(recentDetections, p.defectType, ValidatedBox(p), now, profile).dup
        <=> \E k \in 1..Len(recentDetections) :
                /\ Retained(recentDetections[k])
                /\ TypeOnlyDuplicateRule(p.defectType, ValidatedBox(p),
                                         recentDetections[k].defectType,
                                         recentDetections[k].bbox)

\* C6's case: the list holds a record with a box that has left the window
\* and retains a record without a box, which a boxed candidate of its type
\* is a duplicate of.
C6_Witness ==
    /\ \E k \in 1..Len(recentDetections) :
          HasBox(recentDetections[k].bbox) /\ ~Retained(recentDetections[k])
    /\ \E k \in 1..Len(recentDetections) :
          /\ ~HasBox(recentDetections[k].bbox) /\ Retained(recentDetections[k])
          /\ \E p \in Payloads(profile) :
                /\ HasBox(ValidatedBox(p))
                /\ IsDuplicate(recentDetections, p.defectType, ValidatedBox(p),
                               now, profile).dup

\* C7: a detection accepted at t and reported again with no other record in
\* the list is a duplicate at t + W - 1 and is not one at t + W + 1, where W
\* is 30 s for the property client and 45 s for the forensic client.
C7_WindowExpiry ==
    [][\A p \in Payloads(profile) :
          /\ Len(recentDetections) = 1
          /\ recentDetections[1].defectType = p.defectType
          /\ recentDetections[1].bbox = ValidatedBox(p)
          /\ lastLogs' \notin ValidatorLogs
          /\ lastLogs' # <<"authenticity_alert">>
          /\ MessageStep(p)
          => /\ DedupWindow("property") = 30000 /\ DedupWindow("forensic") = 45000
             /\ now = recentDetections[1].timestamp + DedupWindow(profile) - 1
                   => lastLogs' = <<"duplicate">>
             /\ now = recentDetections[1].timestamp + DedupWindow(profile) + 1
                   => ~InSeq("duplicate", lastLogs') /\ Len(defects') = Len(defects) + 1
      ]_vars

\* C7's case: the same detection was accepted at t and again at t + W + 1.
C7_Witness ==
    /\ Len(defects) >= 2
    /\ defects[1].type = defects[2].type
    /\ defects[1].boundingBox = defects[2].boundingBox
    /\ defects[1].timestamp = defects[2].timestamp + DedupWindow(profile) + 1

\* Defect d is an earlier acceptance of the detection in payload p.
SameDetection(d, p) ==
    d.type = p.defectType /\ d.boundingBox = ValidatedBox(p)

\* C8: a detection flagged as a duplicate is not recorded in the dedup list,
\* and a detection whose earlier acceptances, like every other acceptance,
\* are at least W old is accepted again.
C8_DuplicatesNotRecorded ==
    [][\A p \in Payloads(profile) :
          /\ (now' = now /\ lastLogs' = <<"duplicate">> /\ MessageStep(p))
                => recentDetections' = PruneRecent(recentDetections, now, profile)
          /\ (/\ now' = now
              /\ lastLogs' \notin ValidatorLogs
              /\ \E i \in 1..Len(defects) : SameDetection(defects[i], p)
              /\ \A i \in 1..Len(defects) :
                     now - defects[i].timestamp >= DedupWindow(profile)
              /\ MessageStep(p))
                => /\ Len(defects') = Len(defects) + 1
                   /\ SameDetection(defects'[1], p)
                   /\ defects'[1].timestamp = now
      ]_vars

\* C8's case: a detection was accepted, and accepted again exactly W later.
C8_Witness ==
    /\ Len(defects) = 2
    /\ defects[1].type = defects[2].type
    /\ defects[1].boundingBox = defects[2].boundingBox
    /\ defects[1].timestamp = defects[2].timestamp + DedupWindow(profile)
    /\ Len(recentDetections) = 1

\* The confidences a candidate is given in C9.
CandidateConfidences == {59, 60, 70, 90, 95}

\* C9: shouldSuppressNMS is true exactly when a record less than 5 s old
\* overlaps the candidate with an IoU of at least 0.5 and is at least as
\* confident as the candidate.
C9_SuppressIff ==
    /\ NMS_WINDOW_MS = 5000 /\ NMS_IOU_THRESHOLD_NUM = 50
    /\ \A p \in Payloads(profile) : \A c \in CandidateConfidences :
          HasBox(ParseBox(p.box_2d)) =>
             (ShouldSuppressNMS(confirmedDetections, p.defectType, ParseBox(p.box_2d),
                                c, now).suppress
              <=> \E k \in 1..Len(confirmedDetections) :
                     /\ now - confirmedDetections[k].timestamp < NMS_WINDOW_MS
                     /\ IoUAtLeast(confirmedDetections[k].bbox, ParseBox(p.box_2d),
                                   NMS_IOU_THRESHOLD_NUM)
                     /\ c <= confirmedDetections[k].confidence)

\* C9's case: the NMS list holds a record inside the window and one that
\* has left it.
C9_Witness ==
    /\ \E k \in 1..Len(confirmedDetections) :
          now - confirmedDetections[k].timestamp < NMS_WINDOW_MS
    /\ \E k \in 1..Len(confirmedDetections) :
          now - confirmedDetections[k].timestamp >= NMS_WINDOW_MS

\* The NMS list holds one record, inside the window, of the type of payload
\* p and overlapping it, and the two confidences are 60 and 90.
NmsPair(p) ==
    /\ Len(confirmedDetections) = 1
    /\ now - confirmedDetections[1].timestamp < NMS_WINDOW_MS
    /\ ToLowerCase(confirmedDetections[1].defectType) = ToLowerCase(p.defectType)
    /\ HasBox(ParseBox(p.box_2d))
    /\ IoUAtLeast(confirmedDetections[1].bbox, ParseBox(p.box_2d), NMS_IOU_THRESHOLD_NUM)
    /\ {confirmedDetections[1].confidence, ValidatedConfidence(p)} = {60, 90}

\* The NMS list after the second of the pair: one record, the one of 90.
NinetySurvives(p) ==
    /\ Len(confirmedDetections') = 1
    /\ confirmedDetections'[1].confidence = 90
    /\ ValidatedConfidence(p) = 90
          => /\ confirmedDetections'[1].bbox = ParseBox(p.box_2d)
             /\ confirmedDetections'[1].timestamp = now
    /\ ValidatedConfidence(p) = 60
          => confirmedDetections'[1] = confirmedDetections[1]

\* C10 (as stated): of two overlapping boxes of one type with confidences
\* 60 and 90 arriving within the NMS window, in either order, the NMS list
\* keeps one, the one of 90.
C10_NinetySurvivesAlways ==
    [][\A p \in Payloads(profile) :
          profile = "property" /\ NmsPair(p) /\ MessageStep(p) => NinetySurvives(p)
      ]_vars

\* C10 (amended): the same, for a pair whose second box the dedup stage does
\* not flag as a duplicate, so that both reach the NMS stage.
C10_NinetySurvivesPastDedup ==
    [][\A p \in Payloads(profile) :
          /\ profile = "property" /\ NmsPair(p)
          /\ ~IsDuplicate(recentDetections, p.defectType, ParseBox(p.box_2d),
                          now, profile).dup
          /\ MessageStep(p)
          => NinetySurvives(p)
      ]_vars

\* C10's case: a box of 60 was emitted, an overlapping box of 90 of the same
\* type followed within the window, and the NMS list holds the 90 alone.
C10_Witness ==
    /\ profile = "property"
    /\ Len(defects) = 2
    /\ defects[2].confidence = 60 /\ defects[1].confidence = 90
    /\ defects[1].timestamp - defects[2].timestamp < NMS_WINDOW_MS
    /\ IoUAtLeast(defects[1].boundingBox, defects[2].boundingBox, NMS_IOU_THRESHOLD_NUM)
    /\ Len(confirmedDetections) = 1
    /\ confirmedDetections[1].confidence = 90

\* C11: of the boxed detections the store holds with timestamps less than
\* one NMS window apart, no two have boxes with an IoU of 0.5 or more.
C11_NoOverlappingOverlays ==
    \A i \in 1..Len(defects) : \A j \in (i + 1)..Len(defects) :
        /\ HasBox(defects[i].boundingBox) /\ HasBox(defects[j].boundingBox)
        /\ defects[i].timestamp - defects[j].timestamp < NMS_WINDOW_MS
        => ~IoUAtLeast(defects[i].boundingBox, defects[j].boundingBox,
                       NMS_IOU_THRESHOLD_NUM)

\* Record r of the NMS list is the detection d handed to the store.
Surfaced(r, d) ==
    /\ d.type = r.defectType /\ d.boundingBox = r.bbox
    /\ d.confidence = r.confidence /\ d.timestamp = r.timestamp

\* C12: every record of the NMS list is a detection that was emitted to the
\* store, and a message that emits nothing adds no record to the NMS list.
C12_NmsOnlySurfaced ==
    /\ [](\A k \in 1..Len(confirmedDetections) :
             \E i \in 1..Len(defects) : Surfaced(confirmedDetections[k], defects[i]))
    /\ [][\A p \in Payloads(profile) :
             now' = now /\ defects' = defects /\ MessageStep(p)
             => confirmedDetections' \in
                   {confirmedDetections, PruneConfirmed(confirmedDetections, now)}
         ]_vars

\* C12's case: a detection has been suppressed at an instant later than the
\* one emission, and the NMS list holds that emission alone.
C12_Witness ==
    /\ lastLogs = <<"confirmed", "nms_suppressed">>
    /\ Len(defects) = 1
    /\ Len(confirmedDetections) = 1
    /\ Surfaced(confirmedDetections[1], defects[1])
    /\ now > defects[1].timestamp

\* A candidate of the temporal map that a detection of this type and box,
\* seen now, is a further sighting of.
Sighted(e, defectType, bbox) ==
    /\ now - e.lastSeen <= TEMPORAL_WINDOW_MS
    /\ ToLowerCase(e.defectType) = ToLowerCase(defectType)
    /\ IoUAtLeast(e.bbox, bbox, IOU_THRESHOLD_NUM)

C14_SecondSightingConfirms ==
    [][\A p \in TemporalPayloads : TemporalCall(p) =>
          LET bbox == ParseBox(p.box_2d)
              again == \E k \in 1..Len(temporalBuffer) :
                           Sighted(temporalBuffer[k], p.defectType, bbox)
          IN  /\ StrictThreshold = 2
              /\ lastLogs' = <<"confirmed">> <=> again
              /\ \A k \in 1..Len(temporalBuffer') :
                     now - temporalBuffer'[k].lastSeen <= TEMPORAL_WINDOW_MS
              /\ again => \E k \in 1..Len(temporalBuffer') :
                              /\ temporalBuffer'[k].frameCount >= 2
                              /\ temporalBuffer'[k].lastSeen = now
              /\ ~again => /\ lastLogs' = <<"awaiting">>
                           /\ \E k \in 1..Len(temporalBuffer') :
                                  /\ temporalBuffer'[k].frameCount = 1
                                  /\ temporalBuffer'[k].firstSeen = now
                                  /\ temporalBuffer'[k].lastSeen = now
                                  /\ temporalBuffer'[k].defectType = p.defectType
                                  /\ temporalBuffer'[k].bbox = bbox
                           /\ \A k \in 1..Len(temporalBuffer') :
                                  ToLowerCase(temporalBuffer'[k].defectType)
                                      = ToLowerCase(p.defectType)
                                  /\ IoUAtLeast(temporalBuffer'[k].bbox, bbox, IOU_THRESHOLD_NUM)
                                  => temporalBuffer'[k].frameCount = 1
      ]_vars

\* C14's case: a second sighting exactly one window after the first has
\* confirmed the detection.
C14_Witness ==
    /\ lastLogs = <<"confirmed">>
    /\ \E k \in 1..Len(temporalBuffer) :
          /\ temporalBuffer[k].frameCount = 2
          /\ temporalBuffer[k].lastSeen = temporalBuffer[k].firstSeen + TEMPORAL_WINDOW_MS
          /\ temporalBuffer[k].lastSeen = now

\* What a handler logs when the message does not reach the confidence check.
BeforeConfidenceLogs ==
    {<<"no_json">>, <<"parse_error">>, <<"clear">>, <<"missing_type">>,
     <<"scanning">>, <<"ignored">>, <<"authenticity_alert">>}

\* C15: every detection in the store has a confidence from the threshold of
\* the client in use (60 property, 70 forensic) to 100, and a detection that
\* reaches the confidence check is dropped there exactly when its clamped
\* confidence is below the threshold.
C15_ConfidenceWithinThreshold ==
    /\ [](/\ MinConfidence("property") = 60 /\ MinConfidence("forensic") = 70
          /\ \A i \in 1..Len(defects) :
                 /\ MinConfidence(profile) <= defects[i].confidence
                 /\ defects[i].confidence <= 100)
    /\ [][\A p \in Payloads(profile) :
             now' = now /\ lastLogs' \notin BeforeConfidenceLogs /\ MessageStep(p)
             => /\ lastLogs' = <<"filtered">>
                   <=> ValidatedConfidence(p) < MinConfidence(profile)
                /\ lastLogs' = <<"filtered">> => defects' = defects
                /\ InSeq("detected", lastLogs')
                   => defects'[1].confidence = ValidatedConfidence(p)
         ]_vars

\* C15's case: the store holds a detection exactly at the threshold and one
\* whose confidence was clamped to 100.
C15_Witness ==
    /\ \E i \in 1..Len(defects) : defects[i].confidence = MinConfidence(profile)
    /\ \E i \in 1..Len(defects) : defects[i].confidence = 100

\* C16: a detection without a confidence is given the default of 70, which
\* is below the threshold of the client in use, so that it is dropped.
C16_DefaultBelowThreshold ==
    [][\A p \in Payloads(profile) :
          /\ p.confidence = <<>> /\ now' = now
          /\ lastLogs' \notin BeforeConfidenceLogs /\ MessageStep(p)
          => /\ ValidatedConfidence(p) = 70
             /\ ValidatedConfidence(p) < MinConfidence(profile)
             /\ lastLogs' = <<"filtered">>
      ]_vars

\* ymin < ymax, xmin < xmax, and the four coordinates in [0,1].
IsNormalizedBox(b) ==
    /\ 0 <= b.ymin /\ b.ymin < b.ymax /\ b.ymax <= 1000
    /\ 0 <= b.xmin /\ b.xmin < b.xmax /\ b.xmax <= 1000

\* C17: every box in the dedup list, the temporal map, the NMS list and the
\* store is a normalized box, in either client.
C17_StoredBoxesNormalized ==
    /\ \A k \in 1..Len(recentDetections) :
          HasBox(recentDetections[k].bbox) => IsNormalizedBox(recentDetections[k].bbox)
    /\ \A k \in 1..Len(temporalBuffer) : IsNormalizedBox(temporalBuffer[k].bbox)
    /\ \A k \in 1..Len(confirmedDetections) : IsNormalizedBox(confirmedDetections[k].bbox)
    /\ \A k \in 1..Len(defects) :
          HasBox(defects[k].boundingBox) => IsNormalizedBox(defects[k].boundingBox)

\* Width, height and area of a box, in thousandths and millionths.
BoxWidth(b) == b.xmax - b.xmin
BoxHeight(b) == b.ymax - b.ymin
BoxArea(b) == BoxWidth(b) * BoxHeight(b)

\* The box is too small, too large or too elongated.
Insane(b) ==
    \/ BoxArea(b) < 1000
    \/ BoxArea(b) > 700000
    \/ Max2(BoxWidth(b), BoxHeight(b)) > 15 * Min2(BoxWidth(b), BoxHeight(b))

\* C18: a normalized box is discarded exactly when its area is below 0.001
\* or above 0.70 or its aspect ratio is above 15, and the detection then goes
\* on without a box instead of being rejected; the boxes of area 0.0009 and
\* aspect ratio 16 are discarded, those of area 0.0011 and aspect ratio 14 kept.
C18_BoxSanityFilter ==
    [][\A raw \in RawBoxes : MessageStep(BoxPayload(raw)) =>
          LET nb == NormalizeBox(raw)
          IN  /\ lastLogs' \notin ValidatorLogs
              /\ HasBox(nb) =>
                    /\ Insane(nb) <=> ~HasBox(ParseBox(raw))
                    /\ ~Insane(nb) => ParseBox(raw) = nb
              /\ InSeq("detected", lastLogs') => defects'[1].boundingBox = ParseBox(raw)
              /\ (HasBox(nb) /\ Insane(nb) /\ recentDetections = <<>>)
                    => /\ lastLogs' = <<"detected">>
                       /\ defects' = <<Defect("crack", NoBox, 85, now)>> \o defects
              /\ ~HasBox(ParseBox(RawArea0009)) /\ ~HasBox(ParseBox(RawAspect16))
              /\ ~HasBox(ParseBox(RawArea72))
              /\ BoxArea(ParseBox(RawArea0011)) = 1100
              /\ BoxWidth(ParseBox(RawAspect14)) = 14 * BoxHeight(ParseBox(RawAspect14))
      ]_vars

\* C18's case: a detection whose box was discarded as too small, too large
\* or too elongated is in the store without a box, after one that kept its box
\* left the dedup window.
C18_Witness ==
    /\ Len(defects) = 2
    /\ ~HasBox(defects[1].boundingBox)
    /\ HasBox(defects[2].boundingBox)
    /\ BoxArea(defects[2].boundingBox) \in {1000, 1100, 700000}

\* The specification's autoScaleAndClamp for a raw box whose scale is chosen
\* from the number m: scale, swap, clamp, and no box when nothing is left.
Scaled(v, m) ==
    IF m > 100 * 1000 THEN v \div 1000 ELSE IF m > 1000 THEN v \div 100 ELSE v
Into01(v) == IF v < 0 THEN 0 ELSE IF v > 1000 THEN 1000 ELSE v
AutoScaleAndClamp(raw, m) ==
    LET y1 == Scaled(raw[1], m)
        x1 == Scaled(raw[2], m)
        y2 == Scaled(raw[3], m)
        x2 == Scaled(raw[4], m)
        ylo == IF y1 > y2 THEN y2 ELSE y1
        yhi == IF y1 > y2 THEN y1 ELSE y2
        xlo == IF x1 > x2 THEN x2 ELSE x1
        xhi == IF x1 > x2 THEN x1 ELSE x2
    IN  IF Into01(yhi) - Into01(ylo) <= 0 \/ Into01(xhi) - Into01(xlo) <= 0
        THEN NoBox
        ELSE [ymin |-> Into01(ylo), xmin |-> Into01(xlo),
              ymax |-> Into01(yhi), xmax |-> Into01(xhi)]

Abs(v) == IF v < 0 THEN 0 - v ELSE v
GreatestOf(values) == CHOOSE v \in values : \A w \in values : w <= v
MaxAbsolute(raw) == GreatestOf({Abs(raw[k]) : k \in 1..4})
MaxSigned(raw) == GreatestOf({raw[k] : k \in 1..4})

\* The box a message step hands on after the scale detection.
ScaledBoxIs(raw, b) ==
    /\ NormalizeBox(raw) = b
    /\ InSeq("detected", lastLogs') /\ HasBox(b) /\ ~Insane(b)
          => defects'[1].boundingBox = b

\* C19 (as stated): the scale is chosen from the greatest absolute value of
\* the four numbers; then swap, clamp, and discard of an empty box.
C19_ScaleFromMaxAbsolute ==
    [][\A raw \in RawBoxes : MessageStep(BoxPayload(raw))
          => ScaledBoxIs(raw, AutoScaleAndClamp(raw, MaxAbsolute(raw)))
      ]_vars

\* C19 (amended): the scale is chosen from the greatest of the four numbers
\* as they are signed; then swap, clamp, and discard of an empty box.
C19_ScaleFromMaxSigned ==
    [][\A raw \in RawBoxes : MessageStep(BoxPayload(raw))
          => ScaledBoxIs(raw, AutoScaleAndClamp(raw, MaxSigned(raw)))
      ]_vars

\* C19's case: the store holds the box with the negative number, scaled by
\* its greatest number 60 and clamped, and the inverted box, swapped.
C19_Witness ==
    /\ \E i \in 1..Len(defects) : defects[i].boundingBox = Box(0, 100, 500, 600)
    /\ \E i \in 1..Len(defects) : defects[i].boundingBox = Box(100, 200, 500, 600)

\* The documented example: crack, confidence 85, box [200,150,450,180].
ScenarioBox == Box(200, 150, 450, 180)

Outcome(W) == [W EXCEPT !.logs = <<>>]

\* Well-formed detections: with and without a box, at the threshold of the
\* property client and above that of both.
WellFormed(pf) ==
    { Detection(pf, "crack", <<60>>, RawBoxA),
      Detection(pf, "crack", <<90>>, RawBoxB),
      Detection(pf, "mold", <<60>>, RawBoxC),
      Detection(pf, "mold", <<150>>, <<>>) }

\* C21: a message dropped at the validator (no JSON, malformed JSON, clear or
\* scanning, a missing or non-string type, a confidence below the threshold)
\* leaves the handler with a result and no error, leaves the dedup list, the
\* temporal map, the NMS list, the consumer's list and everything else a
\* handler can change as they were, so that a well-formed message handled
\* next is handled as it would have been without it.
C21_ValidatorDropHarmless ==
    [][\A p \in Payloads(profile) :
          now' = now /\ lastLogs' \in ValidatorLogs /\ MessageStep(p)
          => /\ recentDetections' = recentDetections
             /\ temporalBuffer' = temporalBuffer
             /\ confirmedDetections' = confirmedDetections
             /\ defects' = defects
             /\ World' = [World EXCEPT !.logs = lastLogs']
             /\ \A q \in WellFormed(profile) :
                    Outcome(ParseResponse(World', q, now'))
                        = Outcome(ParseResponse(World, q, now))
      ]_vars

\* C21's case: a message was dropped at the validator while each of the
\* three collections of the property client held a record.
C21_Witness ==
    /\ profile = "property"
    /\ lastLogs \in ValidatorLogs
    /\ recentDetections # <<>>
    /\ temporalBuffer # <<>>
    /\ confirmedDetections # <<>>

(***************************************************************************)
(* The two transports: a session streaming in Live API mode or in REST     *)
(* mode, before a camera whose scene changes with the clock.               *)
(***************************************************************************)
\* What the detector answers for the frame drawn from the video at instant t.
FrameShows(t) ==
    CASE t = 0 -> Detection(profile, "crack", <<90>>, RawBoxB)
      [] t = 1 -> Detection(profile, "mold", <<90>>, RawBoxC)
      [] OTHER -> Detection(profile, "stain", <<90>>, <<>>)

\* startStreaming has fallen back to the REST mode: the socket of the failed
\* connection is closed, the 1.5 s interval is running.
InitRest ==
    /\ profile \in Profiles
    /\ now = 0
    /\ isReady = TRUE
    /\ ws = 1
    /\ frameInterval = 1
    /\ abortController = 1
    /\ recentDetections = <<>>
    /\ temporalBuffer = <<>>
    /\ confirmedDetections = <<>>
    /\ session = IF profile = "forensic"
                 THEN [NoSession EXCEPT !.id = 1, !.chainOfCustody = <<"session_started">>]
                 ELSE NoSession
    /\ defects = <<>>
    /\ lastLogs = <<>>
    /\ isScanning = TRUE
    /\ serviceStatus = "online"
    /\ socks = <<[NewSocket EXCEPT !.st = "closed", !.promise = "false",
                                   !.timeout = FALSE]>>
    /\ timers = {Timer(1, "fallback")}
    /\ requests = <<>>

InitFrames == InitCore \/ InitRest

\* In Live API mode the answer to the frame just sent comes over the one
\* socket; in REST mode each answer comes with the response of its request.
NextFrames ==
    \/ \E t \in SessionInstants(profile) : Tick(t)
    \/ WsTextMessage(1, Content(FrameShows(now)))
    \/ \E tm \in timers : FallbackTimer(tm)
    \/ \E k \in 1..Len(requests) : RestResponse(k, FrameShows(requests[k].frame))
    \/ \E k \in 1..Len(requests) : RestFailure(k)

SpecFrames == InitFrames /\ [][NextFrames]_vars

\* The instant of the frame that showed defect d.
FrameOf(d) ==
    CHOOSE t \in SessionInstants(profile) : FrameShows(t).defectType = d.type

\* C22 as stated: the detections reach the consumer in the order of the
\* frames that produced them (the consumer's list has the latest first).
C22_EmittedInFrameOrder ==
    \A i \in 1..Len(defects) : \A j \in (i + 1)..Len(defects) :
        FrameOf(defects[i]) >= FrameOf(defects[j])

\* C22: in both transport modes a detection reaches the consumer when its
\* message or response is handled, stamped with the clock of that moment and
\* put ahead of the earlier ones, so that the timestamps never decrease in
\* the order of emission, and none is stamped before its frame was drawn.
C22_EmittedInHandlingOrder ==
    /\ [](/\ \A i \in 1..Len(defects) : \A j \in (i + 1)..Len(defects) :
                 defects[i].timestamp >= defects[j].timestamp
          /\ \A i \in 1..Len(defects) : FrameOf(defects[i]) <= defects[i].timestamp)
    /\ [][defects' # defects =>
             /\ Len(defects') = Len(defects) + 1
             /\ Tail(defects') = defects
             /\ defects'[1].timestamp = now
         ]_vars

\* C22's case: in REST mode two requests were outstanding and the response
\* of the later frame was handled first.
C22_Witness ==
    /\ timers = {Timer(1, "fallback")}
    /\ Len(defects) = 2
    /\ defects[1].timestamp > defects[2].timestamp
    /\ FrameOf(defects[1]) < FrameOf(defects[2])

(***************************************************************************)
(* The NMS tracker alone, over a grid of boxes                             *)
(***************************************************************************)
MaxConfirmed == 2

\* The extents of a box along one axis: the two halves and the whole.
Extents == {<<0, 500>>, <<500, 1000>>, <<0, 1000>>}

\* The boxes calculateIoU is applied to: nine of positive area, and two of
\* none (no width, and neither width nor height).
GridBoxes ==
    {Box(y[1], x[1], y[2], x[2]) : y \in Extents, x \in Extents}
        \cup {Box(0, 500, 1000, 500), Box(500, 500, 500, 500)}

GridConfidences == {60, 90}

InitNms == InitCore /\ profile = "property"

\* shouldSuppressNMS and, when it returns false, trackConfirmedDetection, as
\* parseDefectResponse calls them for one message.
NmsCall(defectType, bbox, confidence) ==
    LET nm == ShouldSuppressNMS(confirmedDetections, defectType, bbox, confidence, now)
    IN  /\ Len(nm.list) < MaxConfirmed
        /\ confirmedDetections' =
               IF nm.suppress THEN nm.list
               ELSE TrackConfirmedDetection(nm.list, defectType, bbox, confidence, now)
        /\ lastLogs' = IF nm.suppress THEN <<"nms_suppressed">> ELSE <<"tracked">>
        /\ UNCHANGED <<profile, now, isReady, ws, frameInterval, abortController,
                       recentDetections, temporalBuffer, session, defects,
                       isScanning, serviceStatus, socks, timers, requests>>

NextNms ==
    \/ \E t \in {1, NMS_WINDOW_MS} : Tick(t)
    \/ \E bbox \in GridBoxes : \E confidence \in GridConfidences :
           NmsCall("crack", bbox, confidence)

SpecNms == InitNms /\ [][NextNms]_vars

\* C23: calculateIoU is symmetric, lies in [0,1], is 1 for a box of positive
\* area with itself, and is 0 when the union has no area; for the box of
\* every tracked record against every box of the grid.
C23_IoUSymmetricBounded ==
    \A k \in 1..Len(confirmedDetections) : \A B \in GridBoxes :
        LET A == confirmedDetections[k].bbox
        IN  /\ IoUParts(A, B) = IoUParts(B, A)
            /\ \A pct \in {1, 25, 50, 100} : IoUAtLeast(A, B, pct) <=> IoUAtLeast(B, A, pct)
            /\ IoUAtLeast(A, B, 0) /\ ~IoUAtLeast(A, B, 101)
            /\ BoxArea(A) > 0 => IoUAtLeast(A, A, 100)
            /\ IoUParts(A, B).union = 0 => ~IoUAtLeast(A, B, 1)

\* C23's case: the tracker holds a box of positive area and a box of no
\* area, whose union with itself has no area.
C23_Witness ==
    /\ \E k \in 1..Len(confirmedDetections) : BoxArea(confirmedDetections[k].bbox) > 0
    /\ \E k \in 1..Len(confirmedDetections) :
           LET A == confirmedDetections[k].bbox
           IN  IoUParts(A, A).union = 0

\* The candidates of the temporal map still within the window at this
\* instant, in the map's order.
LiveCandidates ==
    LET Live(e) == now - e.lastSeen <= TEMPORAL_WINDOW_MS
    IN  SelectSeq(temporalBuffer, Live)

\* C24: a boxed detection that matches a candidate (same type whatever the
\* case, IoU >= 0.25) updates that candidate alone, the first such in the
\* map's order: frameCount + 1, lastSeen = now, the greater confidence, the
\* same box, firstSeen and key; every candidate of every reachable state has
\* frameCount >= 1 and firstSeen <= lastSeen; and the call confirms exactly
\* when the frameCount it returns has reached the threshold, be it 1 or 2.
C24_MatchUpdatesCandidate ==
    /\ [](\A k \in 1..Len(temporalBuffer) :
              /\ temporalBuffer[k].frameCount >= 1
              /\ temporalBuffer[k].firstSeen <= temporalBuffer[k].lastSeen)
    /\ [][\A p \in TemporalPayloads : TemporalCall(p) =>
             LET bbox == ParseBox(p.box_2d)
                 confidence == ParseConfidence(p.confidence)
                 kept == LiveCandidates
                 M == {k \in 1..Len(kept) :
                          /\ ToLowerCase(kept[k].defectType) = ToLowerCase(p.defectType)
                          /\ IoUAtLeast(kept[k].bbox, bbox, IOU_THRESHOLD_NUM)}
             IN  /\ M # {} =>
                       LET m == CHOOSE k \in M : \A j \in M : k <= j
                       IN  /\ Len(temporalBuffer') = Len(kept)
                           /\ \A k \in 1..Len(kept) : k # m => temporalBuffer'[k] = kept[k]
                           /\ temporalBuffer'[m].frameCount = kept[m].frameCount + 1
                           /\ temporalBuffer'[m].lastSeen = now
                           /\ temporalBuffer'[m].confidence = Max2(kept[m].confidence, confidence)
                           /\ temporalBuffer'[m].bbox = kept[m].bbox
                           /\ temporalBuffer'[m].defectType = kept[m].defectType
                           /\ temporalBuffer'[m].firstSeen = kept[m].firstSeen
                           /\ temporalBuffer'[m].key = kept[m].key
                           /\ lastLogs' = <<"confirmed">>
                                 <=> temporalBuffer'[m].frameCount >= StrictThreshold
                 /\ \A threshold \in {TEMPORAL_THRESHOLD, StrictThreshold} :
                        LET tc == CheckTemporalConsistency(temporalBuffer, p.defectType, bbox,
                                                           confidence, now, threshold)
                        IN  /\ tc.isConfirmed <=> tc.frameCount >= threshold
                            /\ tc.frameCount = IF M # {}
                                               THEN kept[CHOOSE k \in M : \A j \in M : k <= j].frameCount + 1
                                               ELSE 1
         ]_vars

\* C24's case: a candidate first seen with confidence 90 was matched later by
\* a sighting of less confidence, beside a candidate left as it was.
C24_Witness ==
    /\ lastLogs = <<"confirmed">>
    /\ \E k \in 1..Len(temporalBuffer) :
          /\ temporalBuffer[k].frameCount = 2
          /\ temporalBuffer[k].confidence = 90
          /\ temporalBuffer[k].firstSeen < temporalBuffer[k].lastSeen
          /\ temporalBuffer[k].lastSeen = now
    /\ \E k \in 1..Len(temporalBuffer) :
          /\ temporalBuffer[k].frameCount = 1
          /\ temporalBuffer[k].lastSeen < now

\* C25: a detection without a box, or whose box the validator discarded,
\* goes from Dedup straight to the consumer: the temporal map and the NMS
\* list are left as they were, expired entries included, the outcome is what
\* it would be with both of them empty, and a detection that is no duplicate
\* is emitted and recorded for dedup with a null box.
C25_TypeOnlyBypass ==
    [][\A p \in BoxPayloads \cup {BoxlessPayload} :
          now' = now /\ ~HasBox(ParseBox(p.box_2d)) /\ MessageStep(p)
          => LET blank == ParseDefectResponse(
                              [World EXCEPT !.temporal = <<>>, !.confirmed = <<>>], p, now)
                 dup == IsDuplicate(recentDetections, p.defectType, NoBox, now, profile).dup
             IN  /\ temporalBuffer' = temporalBuffer
                 /\ confirmedDetections' = confirmedDetections
                 /\ recentDetections' = blank.recent
                 /\ defects' = blank.defects
                 /\ lastLogs' = blank.logs
                 /\ dup => lastLogs' = <<"duplicate">> /\ defects' = defects
                 /\ ~dup =>
                       /\ lastLogs' = <<"detected">>
                       /\ defects' = <<Defect(p.defectType, NoBox,
                                              ParseConfidence(p.confidence), now)>> \o defects
                       /\ recentDetections' =
                              Append(PruneRecent(recentDetections, now, profile),
                                     [defectType |-> p.defectType, bbox |-> NoBox,
                                      timestamp |-> now])
      ]_vars

\* C25's case: a detection without a usable box was emitted while the
\* temporal map and the NMS list held the records of a boxed one, expired
\* since.
C25_Witness ==
    /\ lastLogs = <<"detected">>
    /\ defects # <<>> /\ ~HasBox(defects[1].boundingBox)
    /\ recentDetections # <<>>
    /\ ~HasBox(recentDetections[Len(recentDetections)].bbox)
    /\ \E k \in 1..Len(temporalBuffer) : now - temporalBuffer[k].lastSeen > TEMPORAL_WINDOW_MS
    /\ \E k \in 1..Len(confirmedDetections) :
           now - confirmedDetections[k].timestamp >= NMS_WINDOW_MS

(***************************************************************************)
(* The pipeline fed detections whose boxes share a centre                  *)
(***************************************************************************)
\* A box on the 0-1 scale with the centre of RawBoxA and a sixteenth of its
\* area: the same spatial key for the same type, and an IoU below 0.25.
RawBoxD == <<300, 300, 500, 500>>

KeyPayloads ==
    { Detection("property", "mold", <<90>>, RawBoxA),
      Detection("property", "crack", <<60>>, RawBoxA),
      Detection("property", "crack", <<90>>, RawBoxD) }

InitKeys == InitCore /\ profile = "property"

NextKeys ==
    \/ \E t \in Instants(profile) : Tick(t)
    \/ \E p \in KeyPayloads : WsTextMessage(1, Content(p))

SpecKeys == InitKeys /\ [][NextKeys]_vars

\* C26: a boxed detection that reaches the temporal stage and matches no
\* candidate leaves every candidate still within the window in the map, with
\* its box and its frameCount.
C26_InsertKeepsCandidates ==
    [][\A p \in KeyPayloads :
          /\ now' = now
          /\ lastLogs' \in {<<"awaiting">>, <<"confirmed", "nms_suppressed">>,
                            <<"confirmed", "detected">>}
          /\ \A k \in 1..Len(temporalBuffer) :
                 ~Sighted(temporalBuffer[k], p.defectType, ParseBox(p.box_2d))
          /\ MessageStep(p)
          => \A k \in 1..Len(temporalBuffer) :
                 now - temporalBuffer[k].lastSeen <= TEMPORAL_WINDOW_MS
                 => \E j \in 1..Len(temporalBuffer') :
                        /\ temporalBuffer'[j].defectType = temporalBuffer[k].defectType
                        /\ temporalBuffer'[j].bbox = temporalBuffer[k].bbox
                        /\ temporalBuffer'[j].frameCount = temporalBuffer[k].frameCount
      ]_vars

\* C27: at most one frame timer runs at a time, and none runs while the
\* application is not scanning, that is after stop().
C27_TimersCancelled ==
    /\ Cardinality(timers) <= 1
    /\ ~isScanning => timers = {}

\* C28: the promise of every connectLive call is resolved by the time its
\* 8 second timeout fires, and once its socket is closed with the timeout
\* cleared and no message waiting; it is resolved with true only when
\* setupComplete came on its socket.
C28_ConnectResolves ==
    /\ [](\A i \in 1..Len(socks) :
              /\ socks[i].st = "closed" /\ ~socks[i].timeout /\ socks[i].blobs = <<>>
                 => socks[i].promise # "pending")
    /\ [][\A i \in 1..Len(socks) :
             /\ ConnectTimeout(i) => socks'[i].promise # "pending"
             /\ socks[i].promise # "true" /\ socks'[i].promise = "true"
                => WsTextMessage(i, SetupComplete) \/ BlobText(i)
         ]_vars

\* C29: with trackConfirmedDetection called only after shouldSuppressNMS
\* returned false for the same detection, no two records of the NMS list
\* have boxes with IoU >= 0.5.
C29_NmsListDisjoint ==
    \A i \in 1..Len(confirmedDetections) : \A j \in 1..Len(confirmedDetections) :
        i # j => ~IoUAtLeast(confirmedDetections[i].bbox, confirmedDetections[j].bbox, NMS_IOU_THRESHOLD_NUM)

\* C29's case: a detection was tracked beside a record of greater
\* confidence that it overlaps with an IoU below 0.5 and above 0.
C29_Witness ==
    /\ lastLogs = <<"tracked">>
    /\ Len(confirmedDetections) = 2
    /\ confirmedDetections[1].confidence > confirmedDetections[2].confidence
    /\ IoUAtLeast(confirmedDetections[1].bbox, confirmedDetections[2].bbox, 25)
    /\ ~IoUAtLeast(confirmedDetections[1].bbox, confirmedDetections[2].bbox,
                   NMS_IOU_THRESHOLD_NUM)

\* endSession has closed the session: 'session_ended' is the last entry of
\* its chain of custody.
SessionEnded(sess) ==
    /\ HasSession(sess)
    /\ sess.chainOfCustody # <<>>
    /\ sess.chainOfCustody[Len(sess.chainOfCustody)] = "session_ended"

\* C30: once endSession has returned the session, whose three lists are
\* those of the client's session object, no step adds to its evidence, its
\* authenticity alerts or its chain of custody.
C30_EndedSessionClosed ==
    [][SessionEnded(session) /\ session'.id = session.id =>
          /\ session'.evidence = session.evidence
          /\ session'.authenticityAlerts = session.authenticityAlerts
          /\ session'.chainOfCustody = session.chainOfCustody
      ]_vars

====
